---- MODULE Spec2Model ----
(***************************************************************************)
(* Model of the two document pipelines of backend/services:                *)
(*   project_1a.PDFStructureExtractor   (title and outline of one PDF)     *)
(*   project_1b.DocumentIntelligenceAnalyzer (sections, ranking, snippets) *)
(*                                                                         *)
(* Strings are run-length encoded: a text is a sequence of runs            *)
(* [c |-> class, n |-> count], no two neighbouring runs of the same class. *)
(* Character classes:                                                      *)
(*   "l" lower-case letter     "U" upper-case letter other than I, V, X    *)
(*   "R" one of I, V, X        "d" digit          "." full stop            *)
(*   "-" other punctuation     " " blank          "n" line feed            *)
(*   "K" the letters of the word Chapter, in order (a run of KeywordLen is *)
(*       the whole word); "k" the same letters lower-cased.                *)
(* Font sizes are whole points; the float comparisons size >= base * 1.4   *)
(* etc. are exact on them (10 * size >= 14 * base).                        *)
(***************************************************************************)
EXTENDS Integers, Sequences, FiniteSets, TLC

\* ------------------------------------------------------------------ bounds
MaxSections == 16
SimPeriod == 3
SelPeriod == 2
MaxDocs == 3
MaxBlocks == 3
MaxToc == 51
MaxLines == 3
MaxFill == 52
MaxSpans == 2
MaxRuns == 3
PatternPeriod == 2

\* ------------------------------------------------------- program constants
TopSections == 15
RefinePool == 20
TopSubsections == 10
MinContentLen == 50
MinParagraphLen == 100
PseudoParagraphLen == 500
SnippetLen == 300
TitleLimit == 100
ShortBlockLen == 100
HeadingFontSize == 14
DefaultFontSize == 12
MaxOutline == 50
MinTocEntries == 3
MaxTocLevel == 3
MinTitleLen == 3
MinCandidateLen == 5
MinLineLen == 2
MaxLineLen == 200
MinHeadingLen == 2
MaxHeadingLen == 150
KeywordLen == 7
H1Tenths == 14
H2Tenths == 12
H3Tenths == 11
TopShareTenths == 4

\* ------------------------------------------------------------------- texts
Run(c, n) == [c |-> c, n |-> n]

T1(c, n) == <<Run(c, n)>>

EmptyText == <<>>

RECURSIVE TLen(_)
TLen(t) == IF t = <<>> THEN 0 ELSE Head(t).n + TLen(Tail(t))

\* Append one run to a text in normal form, merging it into the last run when
\* the classes agree (keyword runs stay whole words and never merge).
AddRun(t, r) ==
  IF r.n = 0 THEN t
  ELSE IF t # <<>> /\ t[Len(t)].c = r.c /\ r.c \notin {"K", "k"}
       THEN [t EXCEPT ![Len(t)] = Run(r.c, t[Len(t)].n + r.n)]
       ELSE Append(t, r)

RECURSIVE Cat(_, _)
Cat(a, b) == IF b = <<>> THEN a ELSE Cat(AddRun(a, Head(b)), Tail(b))

\* The letters of a cut keyword: "Chap" is an upper-case letter and lower-case ones.
KeywordPrefix(c, m) ==
  IF c = "K" THEN Cat(T1("U", 1), T1("l", m - 1)) ELSE T1("l", m)

\* Python t[:k]
RECURSIVE Take(_, _)
Take(t, k) ==
  IF t = <<>> \/ k <= 0 THEN <<>>
  ELSE IF Head(t).n <= k THEN Cat(<<Head(t)>>, Take(Tail(t), k - Head(t).n))
       ELSE IF Head(t).c \in {"K", "k"} THEN KeywordPrefix(Head(t).c, k)
            ELSE T1(Head(t).c, k)

SpaceClasses == {" ", "n"}

AlnumClasses == {"l", "U", "R", "d", "K", "k"}

AllClasses == AlnumClasses \cup SpaceClasses \cup {".", "-"}

RECURSIVE DropLeading(_, _)
DropLeading(t, junk) ==
  IF t # <<>> /\ Head(t).c \in junk THEN DropLeading(Tail(t), junk) ELSE t

RECURSIVE DropTrailing(_, _)
DropTrailing(t, junk) ==
  IF t # <<>> /\ t[Len(t)].c \in junk
  THEN DropTrailing(SubSeq(t, 1, Len(t) - 1), junk) ELSE t

\* Python str.strip()
Strip(t) == DropTrailing(DropLeading(t, SpaceClasses), SpaceClasses)

\* re.sub(r'^[^a-zA-Z0-9]*', '', t)
TrimLeadingNonAlnum(t) == DropLeading(t, AllClasses \ AlnumClasses)

\* re.sub(r'[^a-zA-Z0-9]*$', '', t)
TrimTrailingNonAlnum(t) == DropTrailing(t, AllClasses \ AlnumClasses)

\* re.sub(r'[.]*$', '', t)
TrimTrailingDots(t) == DropTrailing(t, {"."})

LowerClass(c) == IF c \in {"U", "R"} THEN "l" ELSE IF c = "K" THEN "k" ELSE c

\* Python str.lower()
RECURSIVE Lower(_)
Lower(t) ==
  IF t = <<>> THEN <<>>
  ELSE Cat(T1(LowerClass(Head(t).c), Head(t).n), Lower(Tail(t)))

\* The first k elements of a sequence (Python xs[:k]).
Prefix(xs, k) == SubSeq(xs, 1, IF Len(xs) < k THEN Len(xs) ELSE k)

Min(a, b) == IF a < b THEN a ELSE b

\* ---------------------------------------------- project_1b: the segmenter
\* A block as the layout extractor hands it over: its stripped text, the mean
\* font size of its spans, the bold bit, and the 1-based page it is on.
Block(text, size, bold, page) ==
  [text |-> text, avg_font_size |-> size, is_bold |-> bold, page |-> page]

\* re.match(r'^(\d+\.?\s+|Chapter|Section|...)', block_text, re.IGNORECASE)
has_heading_pattern(t) ==
  /\ t # <<>>
  /\ \/ /\ t[1].c = "d"
        /\ \/ Len(t) >= 2 /\ t[2].c \in SpaceClasses
           \/ Len(t) >= 3 /\ t[2] = Run(".", 1) /\ t[3].c \in SpaceClasses
     \/ t[1].c \in {"K", "k"} /\ t[1].n = KeywordLen

is_heading(b) ==
  \/ b.is_bold /\ TLen(b.text) < ShortBlockLen
  \/ has_heading_pattern(b.text)
  \/ b.avg_font_size > HeadingFontSize

\* "Untitled Section"
UntitledSection ==
  <<Run("U", 1), Run("l", 7), Run(" ", 1), Run("U", 1), Run("l", 6)>>

NewSection == [title |-> EmptyText, content |-> EmptyText, page |-> 1]

EmitSection(doc_name, cur) ==
  [document |-> doc_name,
   page_number |-> cur.page,
   section_title |-> IF cur.title = EmptyText THEN UntitledSection ELSE cur.title,
   content |-> Strip(cur.content)]

\* A slip: >= where the code has >.
KeepsSectionInclusive(cur) == TLen(Strip(cur.content)) >= MinContentLen

\* The flush rule of both flush sites: only content longer than MinContentLen.
KeepsSection(cur) == TLen(Strip(cur.content)) > MinContentLen

\* A slip: a heading met while a title is set and nothing is collected yet
\* taking over as the title instead of becoming content.
SegmentBlockRetitling(doc_name, st, b) ==
  IF is_heading(b) /\ Strip(st.cur.content) # EmptyText
  THEN [sections |-> IF KeepsSection(st.cur)
                     THEN Append(st.sections, EmitSection(doc_name, st.cur))
                     ELSE st.sections,
        cur |-> [title |-> Take(b.text, TitleLimit), content |-> EmptyText,
                 page |-> b.page]]
  ELSE IF is_heading(b)
       THEN [st EXCEPT !.cur.title = Take(b.text, TitleLimit), !.cur.page = b.page]
       ELSE [st EXCEPT !.cur.content = Cat(Cat(@, b.text), T1("n", 2))]

\* One iteration of the block loop on the state [sections, cur].
SegmentBlock(doc_name, st, b) ==
  IF is_heading(b) /\ Strip(st.cur.content) # EmptyText
  THEN [sections |-> IF KeepsSection(st.cur)
                     THEN Append(st.sections, EmitSection(doc_name, st.cur))
                     ELSE st.sections,
        cur |-> [title |-> Take(b.text, TitleLimit), content |-> EmptyText,
                 page |-> b.page]]
  ELSE IF is_heading(b) /\ st.cur.title = EmptyText
       THEN [st EXCEPT !.cur.title = Take(b.text, TitleLimit), !.cur.page = b.page]
       ELSE [st EXCEPT !.cur.content = Cat(Cat(@, b.text), T1("n", 2))]

RECURSIVE SegmentBlocks(_, _, _)
SegmentBlocks(doc_name, st, blocks) ==
  IF blocks = <<>> THEN st
  ELSE SegmentBlocks(doc_name, SegmentBlock(doc_name, st, Head(blocks)), Tail(blocks))

_extract_sections_from_document(doc_name, blocks) ==
  LET st == SegmentBlocks(doc_name, [sections |-> <<>>, cur |-> NewSection], blocks)
  IN IF Strip(st.cur.content) # EmptyText /\ KeepsSection(st.cur)
     THEN Append(st.sections, EmitSection(doc_name, st.cur))
     ELSE st.sections

\* A listed document: whether the path exists, where (if anywhere) processing
\* it raises, and its blocks. fault = "segment" raises while fault_at blocks
\* have been read; fault = "close" raises in doc.close().
Document(name, exists, fault, fault_at, blocks) ==
  [name |-> name, exists |-> exists, fault |-> fault, fault_at |-> fault_at,
   blocks |-> blocks]

\* A slip: appending to all_sections while segmenting, so that what was
\* segmented before the fault stays.
SectionsOfDocumentLeaking(d) ==
  IF ~d.exists THEN <<>>
  ELSE IF d.fault = "open" THEN <<>>
       ELSE IF d.fault = "segment"
            THEN _extract_sections_from_document(d.name, Prefix(d.blocks, d.fault_at))
            ELSE _extract_sections_from_document(d.name, d.blocks)

\* What one pass of the loop over documents adds to all_sections.
SectionsOfDocument(d) ==
  IF ~d.exists THEN <<>>
  ELSE IF d.fault \in {"open", "segment"} THEN <<>>
       ELSE _extract_sections_from_document(d.name, d.blocks)

RECURSIVE _extract_all_sections(_)
_extract_all_sections(docs) ==
  IF docs = <<>> THEN <<>>
  ELSE SectionsOfDocument(Head(docs)) \o _extract_all_sections(Tail(docs))
\* ------------------------------------------------ project_1b: the ranker
\* What the TF-IDF / LSA / cosine step does is the library's business: it
\* either raises in vectorizer.fit_transform (stage "vectorizer"), raises in
\* lsa.fit_transform (stage "lsa"), or yields one similarity per section
\* (stage "ok").
ScoreOutcome(stage, sims) == [stage |-> stage, sims |-> sims]

\* A slip: an unstable descending sort (ascending sort, then reversed).
RECURSIVE InsertDescendingUnstable(_, _, _)
InsertDescendingUnstable(sorted, i, sims) ==
  IF sorted = <<>> THEN <<i>>
  ELSE IF sims[Head(sorted)] > sims[i]
       THEN <<Head(sorted)>> \o InsertDescendingUnstable(Tail(sorted), i, sims)
       ELSE <<i>> \o sorted

\* list.sort(key=..., reverse=True) is stable: an element goes after every
\* element already placed whose key is >= its own.
RECURSIVE InsertDescending(_, _, _)
InsertDescending(sorted, i, sims) ==
  IF sorted = <<>> THEN <<i>>
  ELSE IF sims[Head(sorted)] >= sims[i]
       THEN <<Head(sorted)>> \o InsertDescending(Tail(sorted), i, sims)
       ELSE <<i>> \o sorted

RECURSIVE SortDescending(_, _, _)
SortDescending(sorted, rest, sims) ==
  IF rest = <<>> THEN sorted
  ELSE SortDescending(InsertDescending(sorted, Head(rest), sims), Tail(rest), sims)

\* The input positions of the sections, in the order _score_sections returns them.
RankOrder(n, outcome) ==
  IF outcome.stage = "ok"
  THEN SortDescending(<<>>, [i \in 1..n |-> i], outcome.sims)
  ELSE [i \in 1..n |-> i]

\* A slip: 0-based ranks.
RankNumberZeroBased(i) == i - 1

\* enumerate(...): section["importance_rank"] = i + 1, at 1-based position i
RankNumber(i) == i

WithRank(section, rank) ==
  [document |-> section.document, page_number |-> section.page_number,
   section_title |-> section.section_title, content |-> section.content,
   importance_rank |-> rank]

InOrder(sections, order) ==
  [i \in 1..Len(sections) |-> WithRank(sections[order[i]], RankNumber(i))]

\* A slip: the except branch returning nothing instead of the default ranking.
ScoreSectionsDroppingOnFailure(sections, outcome) ==
  IF outcome.stage = "ok"
  THEN CHOOSE ranked \in
         { InOrder(sections, order) : order \in {RankOrder(Len(sections), outcome)} } : TRUE
  ELSE <<>>

_score_sections(sections, outcome) ==
  CHOOSE ranked \in
    { InOrder(sections, order) : order \in {RankOrder(Len(sections), outcome)} } : TRUE

\* ----------------------------------------------- project_1b: the refiner
\* content.split('\n\n'): every two line feeds in a row separate two pieces.
RECURSIVE SplitParagraphs(_, _, _)
SplitParagraphs(t, cur, acc) ==
  IF t = <<>> THEN Append(acc, cur)
  ELSE IF Head(t).c = "n" /\ Head(t).n >= 2
       THEN SplitParagraphs(Tail(t), AddRun(EmptyText, Run("n", Head(t).n % 2)),
                            Append(acc, cur) \o [j \in 1..((Head(t).n \div 2) - 1) |-> EmptyText])
       ELSE SplitParagraphs(Tail(t), AddRun(cur, Head(t)), acc)

LongParagraph(p) == TLen(Strip(p)) > MinParagraphLen

RECURSIVE StripAll(_)
StripAll(ps) == IF ps = <<>> THEN <<>> ELSE <<Strip(Head(ps))>> \o StripAll(Tail(ps))

\* [p.strip() for p in content.split('\n\n') if len(p.strip()) > 100], or the
\* first 500 characters of the content when no paragraph qualifies.
Paragraphs(content) ==
  LET good == StripAll(SelectSeq(SplitParagraphs(content, EmptyText, <<>>), LongParagraph))
  IN IF good = <<>> THEN <<Take(content, PseudoParagraphLen)>> ELSE good

Ellipsis == T1(".", 3)

\* p[:300] + "..." if len(p) > 300 else p
Truncate(p) == IF TLen(p) > SnippetLen THEN Cat(Take(p, SnippetLen), Ellipsis) ELSE p

\* A selector is what paragraph scoring does for one section: 0 = it raises,
\* k > 0 = np.argmax picks a paragraph (the k-th, counted cyclically).
\* vectorizer.transform / lsa.transform raise NotFittedError unless fitted.
ScoringRaises(fitted, sel) == ~fitted \/ sel = 0

\* A slip: the fallback taking the last paragraph.
BestParagraphLastOnFailure(paragraphs, fitted, sel) ==
  IF ScoringRaises(fitted, sel) THEN paragraphs[Len(paragraphs)]
  ELSE paragraphs[((sel - 1) % Len(paragraphs)) + 1]

BestParagraph(paragraphs, fitted, sel) ==
  IF ScoringRaises(fitted, sel) THEN paragraphs[1]
  ELSE paragraphs[((sel - 1) % Len(paragraphs)) + 1]

Subsection(section, fitted, sel) ==
  [document |-> section.document,
   section_title |-> section.section_title,
   refined_text |-> Truncate(BestParagraph(Paragraphs(section.content), fitted, sel)),
   page_number |-> section.page_number]

_generate_subsections(top_sections, fitted, sels) ==
  LET top == Prefix(top_sections, TopSubsections)
  IN [i \in 1..Len(top) |-> Subsection(top[i], fitted, sels[i])]

_empty_result == [extracted_sections |-> <<>>, subsection_analysis |-> <<>>]

\* The fitted state of self.vectorizer and self.lsa after _score_sections: a
\* fit_transform that raises leaves the object as it was before the call.
VectorizerAfter(before, outcome) == IF outcome.stage = "vectorizer" THEN before ELSE "fitted"

LsaAfter(before, outcome) == IF outcome.stage = "ok" THEN "fitted" ELSE before

\* The sections whose texts each object was last fitted on, <<>> for none.
NothingFitted == [vectorizer |-> <<>>, lsa |-> <<>>]

FittedOnAfter(before, sections, outcome) ==
  [vectorizer |-> IF outcome.stage = "vectorizer" THEN before.vectorizer ELSE sections,
   lsa |-> IF outcome.stage = "ok" THEN sections ELSE before.lsa]

\* ------------------------------------------------------------ the state
VARIABLES
  pc,               \* "ready": constructed, no call yet; "done": the call returned
  documents,        \* analyze_documents' argument
  score_outcome,    \* what the library did in _score_sections
  selectors,        \* what it did per section in _generate_subsections
  all_sections,     \* _extract_all_sections' list
  rank_order,       \* input position of the section at each rank
  ranked_sections,  \* _score_sections' list
  vectorizer,       \* self.vectorizer: "unfitted" | "fitted"
  lsa,              \* self.lsa: "unfitted" | "fitted"
  fitted_on,        \* the sections self.vectorizer and self.lsa were fitted on
  discarded,        \* an analyzer of an earlier request was dropped with a fitted model
  result,           \* analyze_documents' return value
  pdf,              \* extract_structure's document
  structure,        \* extract_structure's return value
  heading_lines     \* text, font size and bold bit of the line behind each outline entry

vars == <<pc, documents, score_outcome, selectors, all_sections, rank_order,
          ranked_sections, vectorizer, lsa, fitted_on, discarded, result, pdf,
          structure, heading_lines>>

vars1b == <<documents, score_outcome, selectors, all_sections, rank_order,
            ranked_sections, vectorizer, lsa, fitted_on, discarded, result>>

vars1a == <<pdf, structure, heading_lines>>

NoOutcome == ScoreOutcome("none", <<>>)

NoPdf == [loaded |-> FALSE]

NoStructure == [title |-> EmptyText, branch |-> "none", outline |-> <<>>]

\* DocumentIntelligenceAnalyzer.__init__ / PDFStructureExtractor.__init__
Init ==
  /\ pc = "ready"
  /\ documents = <<>>
  /\ score_outcome = NoOutcome
  /\ selectors = <<>>
  /\ all_sections = <<>>
  /\ rank_order = <<>>
  /\ ranked_sections = <<>>
  /\ vectorizer = "unfitted"
  /\ lsa = "unfitted"
  /\ fitted_on = NothingFitted
  /\ discarded = FALSE
  /\ result = _empty_result
  /\ pdf = NoPdf
  /\ structure = NoStructure
  /\ heading_lines = <<>>

\* What the library calls may do, chosen where they are made: lib.sims holds
\* the similarity patterns (repeated over the sections) and lib.sels the
\* selector patterns the run considers.
Repeat(pattern, n) == [i \in 1..n |-> pattern[((i - 1) % Len(pattern)) + 1]]

ScoreOutcomes(n, lib) ==
  { ScoreOutcome("vectorizer", <<>>), ScoreOutcome("lsa", <<>>) }
  \cup { ScoreOutcome("ok", Repeat(p, n)) : p \in lib.sims }

Selectors(n, lib) == { Repeat(p, Min(n, TopSubsections)) : p \in lib.sels }

Return(docs, all, outcome, sels, ranked, subs) ==
  /\ pc' = "done"
  /\ documents' = docs
  /\ all_sections' = all
  /\ score_outcome' = outcome
  /\ selectors' = sels
  /\ rank_order' = RankOrder(Len(all), outcome)
  /\ ranked_sections' = ranked
  /\ vectorizer' = VectorizerAfter(vectorizer, outcome)
  /\ lsa' = LsaAfter(lsa, outcome)
  /\ fitted_on' = FittedOnAfter(fitted_on, all, outcome)
  /\ UNCHANGED discarded
  /\ result' = [extracted_sections |-> Prefix(ranked, TopSections),
                subsection_analysis |-> Prefix(subs, TopSubsections)]
  /\ UNCHANGED vars1a

ReturnEmpty(docs) ==
  /\ pc' = "done"
  /\ documents' = docs
  /\ result' = _empty_result
  /\ UNCHANGED <<all_sections, score_outcome, selectors, rank_order,
                 ranked_sections, vectorizer, lsa, fitted_on, discarded>>
  /\ UNCHANGED vars1a

\* One call of analyze_documents.
analyze_documents(docs, lib) ==
  \E all \in {_extract_all_sections(docs)} :
    IF all = <<>> THEN ReturnEmpty(docs)
    ELSE \E outcome \in ScoreOutcomes(Len(all), lib) :
         \E ranked \in {_score_sections(all, outcome)} :
         \E fitted \in {/\ VectorizerAfter(vectorizer, outcome) = "fitted"
                         /\ LsaAfter(lsa, outcome) = "fitted"} :
         \E sels \in Selectors(Len(all), lib) :
         \E subs \in {_generate_subsections(Prefix(ranked, RefinePool), fitted, sels)} :
            Return(docs, all, outcome, sels, ranked, subs)

\* A slip: one analyzer kept for all requests, its vectorizer and lsa with it.
ReusedAnalyzer ==
  /\ pc = "done"
  /\ pc' = "ready"
  /\ documents' = <<>>
  /\ score_outcome' = NoOutcome
  /\ selectors' = <<>>
  /\ all_sections' = <<>>
  /\ rank_order' = <<>>
  /\ ranked_sections' = <<>>
  /\ result' = _empty_result
  /\ UNCHANGED <<vectorizer, lsa, fitted_on, discarded>>
  /\ UNCHANGED vars1a

\* The next request constructs its own analyzer (views.py, process_document_analysis).
NewAnalyzer ==
  /\ pc = "done"
  /\ pc' = "ready"
  /\ documents' = <<>>
  /\ score_outcome' = NoOutcome
  /\ selectors' = <<>>
  /\ all_sections' = <<>>
  /\ rank_order' = <<>>
  /\ ranked_sections' = <<>>
  /\ vectorizer' = "unfitted"
  /\ lsa' = "unfitted"
  /\ fitted_on' = NothingFitted
  /\ discarded' = (discarded \/ vectorizer = "fitted")
  /\ result' = _empty_result
  /\ UNCHANGED vars1a

\* ------------------------------------------------- inputs: the ranking runs
Plain(n, page) == Block(T1("l", n), DefaultFontSize, FALSE, page)

\* A bold one-line heading of i+1 letters: chapter i's title.
ChapterHeading(i) == Block(<<Run("U", 1), Run("l", i)>>, DefaultFontSize, TRUE, i)

\* Body shapes: the lengths of a chapter's body blocks.
\*  1: one short paragraph            2: two long ones, the second over 300
\*  3: four short ones, 366 in all    4: long, short, long
\*  5: six short ones, 550 in all
BodyShapes ==
  << <<60>>, <<120, 350>>, <<90, 90, 90, 90>>, <<301, 60, 101>>,
     <<90, 90, 90, 90, 90, 90>> >>

Chapter(i, shape) ==
  <<ChapterHeading(i)>> \o [j \in 1..Len(shape) |-> Plain(shape[j], i)]

ShapeOf(i, off) == BodyShapes[((i + off) % Len(BodyShapes)) + 1]

RECURSIVE Chapters(_, _, _)
Chapters(from, to, off) ==
  IF from > to THEN <<>>
  ELSE Chapter(from, ShapeOf(from, off)) \o Chapters(from + 1, to, off)

\* n chapters over two documents, the first holding the first half.
Corpus(n, off) ==
  LET h == (n + 1) \div 2
  IN << Document(1, TRUE, "none", 0, Chapters(1, h, off)),
        Document(2, TRUE, "none", 0, Chapters(h + 1, n, off)) >>

SimVals == {0, 1}

SelVals == 0..2

RankLib == [sims |-> [1..SimPeriod -> SimVals], sels |-> [1..SelPeriod -> SelVals]]

AnalyzeCorpus ==
  /\ pc = "ready"
  /\ \E n \in 1..MaxSections, off \in 0..(Len(BodyShapes) - 1) :
       analyze_documents(Corpus(n, off), RankLib)

NextRank == AnalyzeCorpus \/ NewAnalyzer

Spec == Init /\ [][NextRank]_vars

\* ------------------------------------------------------ ranking claims
Ranked == pc = "done" /\ all_sections # <<>>

Scored == Ranked /\ score_outcome.stage = "ok"

ScoringFailed == Ranked /\ score_outcome.stage # "ok"

Unranked(r) ==
  [document |-> r.document, page_number |-> r.page_number,
   section_title |-> r.section_title, content |-> r.content]

IsPermutation(order, n) ==
  /\ Len(order) = n
  /\ \A i \in 1..n : \E k \in 1..n : order[k] = i

\* C1: _score_sections returns the N input sections with importance_rank = position
\* (ranks are exactly 1..N), in non-increasing similarity when scoring succeeded,
\* and analyze_documents emits the first min(N, 15) of them with ranks 1..min(N, 15).
C1_RanksArePermutation ==
  Ranked =>
    LET n == Len(all_sections)
        out == result.extracted_sections
    IN /\ Len(ranked_sections) = n
       /\ IsPermutation(rank_order, n)
       /\ \A i \in 1..n :
            /\ ranked_sections[i].importance_rank = i
            /\ Unranked(ranked_sections[i]) = all_sections[rank_order[i]]
       /\ Scored =>
            \A k \in 1..(n - 1) :
              score_outcome.sims[rank_order[k]] >= score_outcome.sims[rank_order[k + 1]]
       /\ Len(out) = Min(n, TopSections)
       /\ \A i \in 1..Len(out) :
            out[i] = ranked_sections[i] /\ out[i].importance_rank = i

\* More sections than are emitted, scored successfully, and the sort moved some.
C1_Witness ==
  /\ Scored
  /\ Len(all_sections) > TopSections
  /\ Len(result.extracted_sections) = TopSections
  /\ \E i \in 1..Len(rank_order) : rank_order[i] # i

\* C2: the descending sort is stable: of two sections with equal similarity the
\* one extracted earlier gets the smaller importance_rank.
C2_StableSort ==
  Scored =>
    \A a, b \in 1..Len(rank_order) :
      (a < b /\ score_outcome.sims[rank_order[a]] = score_outcome.sims[rank_order[b]])
        => rank_order[a] < rank_order[b]

\* Two tied sections below a section extracted after them.
C2_Witness ==
  /\ Scored
  /\ \E a, b \in 1..Len(rank_order) :
       /\ a < b
       /\ score_outcome.sims[rank_order[a]] = score_outcome.sims[rank_order[b]]
       /\ \E c \in 1..(a - 1) : rank_order[c] > rank_order[b]

\* C3: when the weighting or reduction step raises, the N sections come back in
\* extraction order with importance_rank = position, and analyze_documents never
\* returns an empty extracted_sections when a section was extracted (a single
\* section gets rank 1).
C3_FallbackKeepsOrder ==
  /\ ScoringFailed =>
       /\ Len(ranked_sections) = Len(all_sections)
       /\ \A i \in 1..Len(all_sections) :
            ranked_sections[i] = WithRank(all_sections[i], i)
  /\ Ranked =>
       /\ result.extracted_sections # <<>>
       /\ result.extracted_sections[1].importance_rank = 1
       /\ Len(all_sections) = 1 =>
            result.extracted_sections = <<WithRank(all_sections[1], 1)>>

\* A single section whose scoring raised.
C3_Witness ==
  /\ ScoringFailed
  /\ Len(all_sections) = 1
  /\ result.extracted_sections[1].importance_rank = 1

\* C9: the refiner returns min(N, 10) subsections, the i-th for the section at
\* rank i; when scoring a section raises (or nothing was ever fitted) the section
\* still yields its first paragraph, cut to 300 characters plus the ellipsis.
C9_RefinerBestEffort ==
  Ranked =>
    LET subs == result.subsection_analysis
    IN /\ Len(subs) = Min(Len(all_sections), TopSubsections)
       /\ \A i \in 1..Len(subs) :
            /\ subs[i].document = ranked_sections[i].document
            /\ subs[i].section_title = ranked_sections[i].section_title
            /\ subs[i].page_number = ranked_sections[i].page_number
            /\ (vectorizer = "unfitted" \/ lsa = "unfitted" \/ selectors[i] = 0) =>
                 LET first == Paragraphs(ranked_sections[i].content)[1]
                 IN /\ TLen(first) > SnippetLen =>
                         subs[i].refined_text = Cat(Take(first, SnippetLen), Ellipsis)
                    /\ TLen(first) <= SnippetLen => subs[i].refined_text = first

\* More than ten sections, nothing fitted, among them a section with several
\* qualifying paragraphs and a cut snippet.
C9_Witness ==
  /\ Ranked
  /\ Len(all_sections) > TopSubsections
  /\ lsa = "unfitted"
  /\ \E i \in 1..TopSubsections :
       /\ Len(Paragraphs(ranked_sections[i].content)) >= 2
       /\ TLen(Paragraphs(ranked_sections[i].content)[1]) <= SnippetLen
  /\ \E i \in 1..TopSubsections :
       TLen(result.subsection_analysis[i].refined_text) = SnippetLen + 3

\* ---------------------------------------------- inputs: the segmenter runs
\* Block shapes: text, font size, bold.
\*  a short and a long plain block; a short bold one (a heading) and a long
\*  bold one (not one); "1. xxx" of 120 characters; a short block in a large
\*  font; "Chapter 1".
BlockShapes ==
  { [text |-> T1("l", 24), size |-> DefaultFontSize, bold |-> FALSE],
    [text |-> T1("l", 120), size |-> DefaultFontSize, bold |-> FALSE],
    [text |-> <<Run("U", 1), Run("l", 23)>>, size |-> DefaultFontSize, bold |-> TRUE],
    [text |-> T1("l", 120), size |-> DefaultFontSize, bold |-> TRUE],
    [text |-> <<Run("d", 1), Run(".", 1), Run(" ", 1), Run("l", 117)>>,
     size |-> DefaultFontSize, bold |-> FALSE],
    [text |-> T1("l", 24), size |-> HeadingFontSize + 2, bold |-> FALSE],
    [text |-> <<Run("K", KeywordLen), Run(" ", 1), Run("d", 1)>>,
     size |-> DefaultFontSize, bold |-> FALSE] }

\* The blocks of a document of two pages, the first k of them on page 1.
Paged(shapes, k) ==
  [j \in 1..Len(shapes) |->
     Block(shapes[j].text, shapes[j].size, shapes[j].bold, IF j <= k THEN 1 ELSE 2)]

\* The library succeeds with equal similarities or raises; argmax picks the first.
PlainLib == [sims |-> {<<0>>}, sels |-> {<<1>>}]

AnalyzeBlocks ==
  /\ pc = "ready"
  /\ \E n \in 0..MaxBlocks :
       \E shapes \in [1..n -> BlockShapes], k \in 0..n :
         analyze_documents(<<Document(1, TRUE, "none", 0, Paged(shapes, k))>>, PlainLib)

NextSeg == AnalyzeBlocks \/ NewAnalyzer

SpecSeg == Init /\ [][NextSeg]_vars

\* ------------------------------------------ inputs: lists of documents
Heading24(page) == Block(<<Run("U", 1), Run("l", 23)>>, DefaultFontSize, TRUE, page)

\* Block lists: one that yields two sections (the first untitled), one that
\* yields none.
DocShapes ==
  { <<Plain(60, 1), Heading24(1), Plain(120, 2)>>,
    <<Plain(24, 1)>> }

\* A listed document is fine, missing, or raises in fitz.open, in the block
\* loop (before any block or after the last one) or in doc.close().
DocumentsNamed(name) ==
  { Document(name, FALSE, "none", 0, <<>>), Document(name, TRUE, "open", 0, <<>>) }
  \cup { Document(name, TRUE, f, 0, b) : f \in {"none", "segment", "close"}, b \in DocShapes }
  \cup { Document(name, TRUE, "segment", Len(b), b) : b \in DocShapes }

RECURSIVE DocumentLists(_)
DocumentLists(n) ==
  IF n = 0 THEN {<<>>}
  ELSE { Append(ds, d) : ds \in DocumentLists(n - 1), d \in DocumentsNamed(n) }

AnalyzeListed ==
  /\ pc = "ready"
  /\ \E n \in 0..MaxDocs : \E docs \in DocumentLists(n) :
       analyze_documents(docs, PlainLib)

NextDocs == AnalyzeListed \/ NewAnalyzer

SpecDocs == Init /\ [][NextDocs]_vars

\* ---------------------------------------------------- segmenter claims
\* C4: every Section the segmenter emits, at a heading or at the end of the
\* document, has stripped content longer than 50 characters.
C4_NoShortSection ==
  \A i \in 1..Len(all_sections) :
    /\ TLen(Strip(all_sections[i].content)) > MinContentLen
    /\ all_sections[i].content = Strip(all_sections[i].content)

\* A body of at most 50 characters closed by a heading and dropped, in a
\* document that still yields a section.
ShortBodyBefore(blocks, j) ==
  /\ j > 1 /\ is_heading(blocks[j]) /\ ~is_heading(blocks[j - 1])
  /\ TLen(blocks[j - 1].text) <= MinContentLen
  /\ (j = 2 \/ is_heading(blocks[j - 2]))

C4_Witness ==
  /\ pc = "done"
  /\ Len(documents) = 1
  /\ all_sections # <<>>
  /\ \E j \in 1..Len(documents[1].blocks) : ShortBodyBefore(documents[1].blocks, j)

\* ------------------------------------------------ document-list claims
Faulty(d) == ~d.exists \/ d.fault \in {"open", "segment"}

Healthy(d) == ~Faulty(d)

\* C10: with documents missing or failing in open or segmentation, the call
\* returns a well-formed result; a faulty document contributes no section and the
\* others contribute what they would if the faulty ones were not listed.
C10_FaultyDocumentsSkipped ==
  pc = "done" =>
    /\ all_sections = _extract_all_sections(SelectSeq(documents, Healthy))
    /\ \A i \in 1..Len(all_sections), j \in 1..Len(documents) :
         Faulty(documents[j]) => all_sections[i].document # documents[j].name
    /\ Len(result.extracted_sections) = Min(Len(all_sections), TopSections)
    /\ Len(result.subsection_analysis) = Min(Len(all_sections), TopSubsections)
    /\ \A i \in 1..Len(result.extracted_sections) :
         Unranked(result.extracted_sections[i]) = all_sections[rank_order[i]]

\* A missing document, one that raised after its blocks were read, and a healthy
\* one after them that contributes sections.
C10_Witness ==
  /\ pc = "done"
  /\ \E i, j, k \in 1..Len(documents) :
       /\ ~documents[i].exists
       /\ documents[j].exists /\ documents[j].fault = "segment"
       /\ documents[j].fault_at > 1
       /\ j < k /\ Healthy(documents[k])
       /\ \E s \in 1..Len(all_sections) : all_sections[s].document = documents[k].name

\* --------------------------------------------- project_1a: the title
\* A span of page 1: its text, font size and the top edge bbox[1].
Span(text, size, top) == [text |-> text, size |-> size, top |-> top]

\* A PDF as fitz shows it: whether fitz.open succeeds, metadata['title'], the
\* page count and page 1's height and spans, get_toc()'s [level, title, page]
\* entries, and the text lines of all pages in reading order (merged span text,
\* mean font size, bold bit, 1-based page).
Pdf(opens, meta_title, pages, height, spans, toc, lines) ==
  [loaded |-> TRUE, opens |-> opens, meta_title |-> meta_title, pages |-> pages,
   height |-> height, spans |-> spans, toc |-> toc, lines |-> lines]

UnknownDocument ==
  <<Run("U", 1), Run("l", 6), Run(" ", 1), Run("U", 1), Run("l", 7)>>

\* bbox[1] < page.rect.height * 0.4 and len(text) > 5, on the stripped span text
IsCandidate(sp, height) ==
  10 * sp.top < TopShareTenths * height /\ TLen(Strip(sp.text)) > MinCandidateLen

\* sort(key=lambda x: (-x[1], x[2])): larger font first, then higher on the page
Before(a, b) == a.size > b.size \/ (a.size = b.size /\ a.top < b.top)

RECURSIVE InsertCandidate(_, _)
InsertCandidate(sorted, x) ==
  IF sorted = <<>> THEN <<x>>
  ELSE IF Before(x, Head(sorted)) THEN <<x>> \o sorted
       ELSE <<Head(sorted)>> \o InsertCandidate(Tail(sorted), x)

RECURSIVE SortCandidates(_, _)
SortCandidates(sorted, rest) ==
  IF rest = <<>> THEN sorted
  ELSE SortCandidates(InsertCandidate(sorted, Head(rest)), Tail(rest))

RECURSIVE TitleCandidates(_, _)
TitleCandidates(spans, height) ==
  IF spans = <<>> THEN <<>>
  ELSE (IF IsCandidate(Head(spans), height)
        THEN <<[text |-> Strip(Head(spans).text), size |-> Head(spans).size,
                top |-> Head(spans).top]>>
        ELSE <<>>) \o TitleCandidates(Tail(spans), height)

\* A slip: >= where the code has >.
AcceptsMetadataTitleInclusive(t) == t # EmptyText /\ TLen(t) >= MinTitleLen

\* if metadata_title and len(metadata_title) > 3
AcceptsMetadataTitle(t) == t # EmptyText /\ TLen(t) > MinTitleLen

\* if len(potential_title) > 3
AcceptsPotentialTitle(t) == TLen(t) > MinTitleLen

PageTitle(doc) ==
  LET cands == SortCandidates(<<>>, TitleCandidates(doc.spans, doc.height))
      potential == TrimTrailingNonAlnum(TrimLeadingNonAlnum(cands[1].text))
  IN IF doc.pages > 0 /\ cands # <<>> /\ AcceptsPotentialTitle(potential)
     THEN [branch |-> "page", title |-> potential]
     ELSE [branch |-> "sentinel", title |-> UnknownDocument]

\* The branch that answered and the title it returned.
_extract_title(doc) ==
  IF AcceptsMetadataTitle(Strip(doc.meta_title))
  THEN [branch |-> "metadata", title |-> Strip(doc.meta_title)]
  ELSE PageTitle(doc)

\* -------------------------------------------- project_1a: the outline
TocEntry(level, title, page) == [level |-> level, title |-> title, page |-> page]

\* f"H{n}" for n = 1, 2, 3
HeadingLevel(n) == <<"H1", "H2", "H3">>[n]

Entry(level, text, page) == [level |-> level, text |-> text, page |-> page]

\* A slip: the TOC title taken as it is.
TocTextVerbatim(title) == title

\* title.strip()
TocText(title) == Strip(title)

\* The loop over toc[:50].
OutlineFromToc(toc) ==
  [i \in 1..Len(Prefix(toc, MaxOutline)) |->
     Entry(HeadingLevel(Min(toc[i].level, MaxTocLevel)), TocText(toc[i].title), toc[i].page)]

Line(text, size, bold, page) ==
  [text |-> text, font_size |-> size, is_bold |-> bold, page |-> page]

\* \.?\s+ from run i on: an optional single full stop, then white space.
OptDotSpace(t, i) ==
  \/ Len(t) >= i /\ t[i].c \in SpaceClasses
  \/ Len(t) >= i + 1 /\ t[i] = Run(".", 1) /\ t[i + 1].c \in SpaceClasses

\* Chapter\s+\d+ (Section\s+\d+ alike)
KeywordNumber(t) ==
  /\ Len(t) >= 3 /\ t[1] = Run("K", KeywordLen) /\ t[2].c \in SpaceClasses
  /\ LET rest == DropLeading(Tail(t), SpaceClasses)
     IN rest # <<>> /\ rest[1].c = "d"

\* any(re.match(pattern, text) for pattern in self.heading_patterns)
is_pattern_match(t) ==
  /\ t # <<>>
  /\ \/ t[1].c = "d" /\ OptDotSpace(t, 2)
     \/ /\ Len(t) >= 3 /\ t[1].c = "d" /\ t[2] = Run(".", 1) /\ t[3].c = "d"
        /\ OptDotSpace(t, 4)
     \/ /\ Len(t) >= 5 /\ t[1].c = "d" /\ t[2] = Run(".", 1) /\ t[3].c = "d"
        /\ t[4] = Run(".", 1) /\ t[5].c = "d" /\ OptDotSpace(t, 6)
     \/ t[1].c = "R" /\ OptDotSpace(t, 2)
     \/ t[1].c \in {"U", "R"} /\ t[1].n = 1 /\ OptDotSpace(t, 2)
     \/ t[1].c = "l" /\ t[1].n = 1 /\ OptDotSpace(t, 2)
     \/ KeywordNumber(t)

\* if line_text and len(line_text) > 2: the lines that enter all_text_blocks
IsTextBlock(l) == TLen(l.text) > MinLineLen

RECURSIVE SizesOf(_)
SizesOf(blocks) ==
  IF blocks = <<>> THEN <<>> ELSE <<Head(blocks).font_size>> \o SizesOf(Tail(blocks))

Occurrences(sizes, v) == Cardinality({i \in 1..Len(sizes) : sizes[i] = v})

\* font_sizes.sort(reverse=True); Counter(font_sizes).most_common(1)[0][0]:
\* the most frequent size, the largest of them on a tie.
BaseFontSize(sizes) ==
  CHOOSE v \in {sizes[i] : i \in 1..Len(sizes)} :
    \A w \in {sizes[i] : i \in 1..Len(sizes)} :
      \/ Occurrences(sizes, v) > Occurrences(sizes, w)
      \/ Occurrences(sizes, v) = Occurrences(sizes, w) /\ v >= w

\* A slip: the H2 test written like the H3 test, without "is_bold and".
LevelOfPatternAloneH2(l, base) ==
  IF \/ 10 * l.font_size >= H1Tenths * base
     \/ l.is_bold /\ 10 * l.font_size >= H3Tenths * base
  THEN "H1"
  ELSE IF 10 * l.font_size >= H2Tenths * base \/ is_pattern_match(l.text)
       THEN "H2"
       ELSE IF 10 * l.font_size >= H3Tenths * base \/ is_pattern_match(l.text)
            THEN "H3" ELSE "none"

\* A slip: the bold-and-pattern test of H2 tried before the size tests of H1.
LevelOfPatternBeforeSize(l, base) ==
  IF l.is_bold /\ is_pattern_match(l.text) THEN "H2"
  ELSE IF \/ 10 * l.font_size >= H1Tenths * base
          \/ l.is_bold /\ 10 * l.font_size >= H3Tenths * base
       THEN "H1"
       ELSE IF 10 * l.font_size >= H2Tenths * base THEN "H2"
            ELSE IF 10 * l.font_size >= H3Tenths * base \/ is_pattern_match(l.text)
                 THEN "H3" ELSE "none"

\* The if / elif / elif chain on the thresholds base * 1.4, 1.2, 1.1.
LevelOf(l, base) ==
  IF \/ 10 * l.font_size >= H1Tenths * base
     \/ l.is_bold /\ 10 * l.font_size >= H3Tenths * base
  THEN "H1"
  ELSE IF 10 * l.font_size >= H2Tenths * base \/ (l.is_bold /\ is_pattern_match(l.text))
       THEN "H2"
       ELSE IF 10 * l.font_size >= H3Tenths * base \/ is_pattern_match(l.text)
            THEN "H3" ELSE "none"

\* re.sub(r'^[^a-zA-Z0-9]*', '', text), re.sub(r'[.]*$', '', ...).strip()
CleanText(t) == Strip(TrimTrailingDots(TrimLeadingNonAlnum(t)))

\* The headings loop: level, cleaned text and page (and the line they come from).
RECURSIVE Headings(_, _)
Headings(blocks, base) ==
  IF blocks = <<>> THEN <<>>
  ELSE LET l == Head(blocks)
           level == LevelOf(l, base)
           clean == CleanText(l.text)
       IN (IF /\ TLen(l.text) <= MaxLineLen
              /\ level # "none"
              /\ TLen(clean) > MinHeadingLen /\ TLen(clean) < MaxHeadingLen
           THEN <<[level |-> level, text |-> clean, page |-> l.page,
                   font_size |-> l.font_size, is_bold |-> l.is_bold, line |-> l.text]>>
           ELSE <<>>) \o Headings(Tail(blocks), base)

\* A slip: duplicates recognised by text and page without lower-casing.
HeadingKeyCaseSensitive(h) == <<h.text, h.page>>

\* heading_key = (heading["text"].lower(), heading["page"])
HeadingKey(h) == <<Lower(h.text), h.page>>

RECURSIVE Unique(_, _)
Unique(headings, seen) ==
  IF headings = <<>> THEN <<>>
  ELSE IF HeadingKey(Head(headings)) \in seen THEN Unique(Tail(headings), seen)
       ELSE <<Head(headings)>>
            \o Unique(Tail(headings), seen \cup {HeadingKey(Head(headings))})

\* unique_headings.sort(key=lambda x: x["page"]): stable, ascending
InsertByPage(sorted, h) ==
  LET k == Cardinality({i \in 1..Len(sorted) : sorted[i].page <= h.page})
  IN SubSeq(sorted, 1, k) \o <<h>> \o SubSeq(sorted, k + 1, Len(sorted))

RECURSIVE SortByPage(_, _)
SortByPage(sorted, rest) ==
  IF rest = <<>> THEN sorted
  ELSE SortByPage(InsertByPage(sorted, Head(rest)), Tail(rest))

\* The fallback's headings, each still with the text, font size and bold bit of
\* its line.
SizedHeadings(lines) ==
  LET blocks == SelectSeq(lines, IsTextBlock)
  IN IF blocks = <<>> THEN <<>>
     ELSE SortByPage(<<>>, Unique(Headings(blocks, BaseFontSize(SizesOf(blocks))), {}))

Entries(sized) == [i \in 1..Len(sized) |-> Entry(sized[i].level, sized[i].text, sized[i].page)]

_extract_headings_by_font_analysis(lines) == Entries(SizedHeadings(lines))

\* A slip: any TOC entry at all keeping the TOC outline.
UsesTocNonEmpty(toc_outline) == Len(toc_outline) >= 1

\* if len(outline) < 3 is false: the TOC outline stands
UsesToc(toc_outline) == Len(toc_outline) >= MinTocEntries

_extract_outline(doc) ==
  LET toc_outline == OutlineFromToc(doc.toc)
  IN Prefix(IF UsesToc(toc_outline) THEN toc_outline
            ELSE _extract_headings_by_font_analysis(doc.lines), MaxOutline)

\* The lines behind the entries of the outline, none for a TOC outline.
OutlineLines(doc) ==
  IF UsesToc(OutlineFromToc(doc.toc)) THEN <<>>
  ELSE LET sized == Prefix(SizedHeadings(doc.lines), MaxOutline)
       IN [i \in 1..Len(sized) |->
             [text |-> sized[i].line, font_size |-> sized[i].font_size,
              is_bold |-> sized[i].is_bold]]

\* extract_structure: the except branch answers when fitz.open raises.
extract_structure(doc) ==
  /\ pc' = "done"
  /\ pdf' = doc
  /\ IF doc.opens
     THEN \E t \in {_extract_title(doc)}, o \in {_extract_outline(doc)} :
            /\ structure' = [title |-> t.title, branch |-> t.branch, outline |-> o]
            /\ heading_lines' = OutlineLines(doc)
     ELSE /\ structure' = [title |-> UnknownDocument, branch |-> "error", outline |-> <<>>]
          /\ heading_lines' = <<>>
  /\ UNCHANGED vars1b

\* extract_structure keeps nothing between calls: the next call starts afresh.
NewExtractor ==
  /\ pc = "done"
  /\ pc' = "ready"
  /\ pdf' = NoPdf
  /\ structure' = NoStructure
  /\ heading_lines' = <<>>
  /\ UNCHANGED vars1b

\* ------------------------------------------------ inputs: the title runs
PageHeight == 800

MyPaper == <<Run("U", 1), Run("l", 1), Run(" ", 1), Run("U", 1), Run("l", 4)>>

TitleClasses == {"l", "-", " "}

RunLens == {1, 2, 4}

\* Every text of at most k runs over TitleClasses and RunLens.
RECURSIVE TitleTexts(_)
TitleTexts(k) ==
  IF k = 0 THEN {EmptyText}
  ELSE TitleTexts(k - 1) \cup
       { Append(t, Run(c, n)) :
           t \in {u \in TitleTexts(k - 1) : Len(u) = k - 1}, c \in TitleClasses, n \in RunLens }

NormalForm(t) == \A i \in 1..(Len(t) - 1) : t[i].c # t[i + 1].c

\* Span texts: "abcdef", "abcd", "--abcd", "--ab--", "-abc--", " abcdef ".
SpanTexts ==
  { T1("l", 6), T1("l", 4),
    <<Run("-", 2), Run("l", 4)>>,
    <<Run("-", 2), Run("l", 2), Run("-", 2)>>,
    <<Run("-", 1), Run("l", 3), Run("-", 2)>>,
    <<Run(" ", 1), Run("l", 6), Run(" ", 1)>> }

Spans == { Span(t, size, top) : t \in SpanTexts, size \in {10, 14}, top \in {100, 400} }

TitleFromMetadata ==
  /\ pc = "ready"
  /\ \E meta \in {t \in TitleTexts(MaxRuns) : NormalForm(t)},
        spans \in {<<>>, <<Span(T1("l", 6), 14, 100)>>} :
       extract_structure(Pdf(TRUE, meta, 1, PageHeight, spans, <<>>, <<>>))

TitleFromPage ==
  /\ pc = "ready"
  /\ \E meta \in {EmptyText, T1("l", 3)}, pages \in {0, 1}, n \in 0..MaxSpans :
       \E spans \in [1..n -> Spans] :
         extract_structure(Pdf(TRUE, meta, pages, PageHeight, spans, <<>>, <<>>))

Unopenable ==
  /\ pc = "ready"
  /\ extract_structure(Pdf(FALSE, MyPaper, 1, PageHeight, <<>>, <<>>, <<>>))

NextTitle == TitleFromMetadata \/ TitleFromPage \/ Unopenable \/ NewExtractor

SpecTitle == Init /\ [][NextTitle]_vars

\* ------------------------------------------------------- title claims
Answered == pc = "done" /\ pdf.loaded

Cleaned(t) == TrimTrailingNonAlnum(TrimLeadingNonAlnum(t))

\* C7 as stated: every title returned has more than 3 characters after its
\* leading and trailing non-alphanumeric characters are removed, or is
\* "Unknown Document".
C7_Original ==
  Answered =>
    \/ structure.title = UnknownDocument
    \/ TLen(Cleaned(structure.title)) > MinTitleLen

\* C7, amended: a title from the page-1 heuristic has more than 3 characters
\* after that cleaning; a title from the metadata is the metadata title without
\* its surrounding white space and has more than 3 characters as it is; any other
\* title is "Unknown Document".
C7_TitleByBranch ==
  Answered =>
    /\ structure.branch = "page" =>
         /\ TLen(Cleaned(structure.title)) > MinTitleLen
         /\ structure.title = Cleaned(structure.title)
    /\ structure.branch = "metadata" =>
         /\ structure.title = Strip(pdf.meta_title)
         /\ TLen(structure.title) > MinTitleLen
    /\ structure.branch \in {"sentinel", "error"} => structure.title = UnknownDocument
    /\ structure.branch \in {"page", "metadata", "sentinel", "error"}

\* A metadata title returned although cleaning it leaves 3 characters or fewer.
C7_Witness ==
  /\ Answered
  /\ structure.branch = "metadata"
  /\ Cleaned(structure.title) # structure.title
  /\ TLen(Cleaned(structure.title)) <= MinTitleLen

\* ---------------------------------------------- inputs: the outline runs
Intro == <<Run("U", 1), Run("l", 4)>>

\* TOC entries: "Intro" at depth 1, " Intro " at depth 2, and at depth 4 the
\* blank title get_toc gives an entry without one.
TocShapes ==
  { TocEntry(1, Intro, 1),
    TocEntry(2, <<Run(" ", 1), Run("U", 1), Run("l", 4), Run(" ", 1)>>, 1),
    TocEntry(4, T1(" ", 1), 2) }

\* A TOC of n entries repeating a pattern, on the pattern's pages or (running)
\* on pages 1, 2, 3, ...
Toc(pattern, n, running) ==
  [i \in 1..n |->
     LET e == pattern[((i - 1) % Len(pattern)) + 1]
     IN TocEntry(e.level, e.title, IF running THEN i ELSE e.page)]

\* "1. Intro"
NumberedIntro == <<Run("d", 1), Run(".", 1), Run(" ", 1), Run("U", 1), Run("l", 4)>>

\* Three lines of which the font analysis would make one heading.
SomeLines ==
  << Line(NumberedIntro, 10, FALSE, 1), Line(T1("l", 40), 10, FALSE, 1),
     Line(T1("l", 40), 10, FALSE, 2) >>

OutlineOfToc ==
  /\ pc = "ready"
  /\ \E n \in 0..MaxToc, pattern \in [1..PatternPeriod -> TocShapes], running \in BOOLEAN :
       extract_structure(Pdf(TRUE, MyPaper, 2, PageHeight, <<>>, Toc(pattern, n, running), SomeLines))

\* Lines: "1. Intro", "1. intro", a body line.
LongShapes ==
  { [text |-> NumberedIntro, bold |-> FALSE],
    [text |-> <<Run("d", 1), Run(".", 1), Run(" ", 1), Run("l", 5)>>, bold |-> FALSE],
    [text |-> T1("l", 40), bold |-> FALSE] }

\* n lines repeating a pattern, the first k on page 1 and one per page after.
LongLines(pattern, n, k) ==
  [i \in 1..n |->
     LET sh == pattern[((i - 1) % Len(pattern)) + 1]
     IN Line(sh.text, 10, sh.bold, IF i <= k THEN 1 ELSE i - k + 1)]

ShortToc == <<TocEntry(1, Intro, 1), TocEntry(2, Intro, 2)>>

OutlineOfLongDocument ==
  /\ pc = "ready"
  /\ \E n \in 0..MaxFill, pattern \in [1..PatternPeriod -> LongShapes] :
       \E k \in {1, 2, n} :
         extract_structure(Pdf(TRUE, MyPaper, n, PageHeight, <<>>, ShortToc,
                               LongLines(pattern, n, k)))

NextOutline == OutlineOfToc \/ OutlineOfLongDocument \/ NewExtractor

SpecOutline == Init /\ [][NextOutline]_vars

\* Lines of a short document: two texts, four sizes, plain or bold, on page 1.
LineShapes ==
  { Line(t, size, bold, 1) :
      t \in {Intro, NumberedIntro}, size \in {10, 11, 13, 14}, bold \in BOOLEAN }

OutlineOfShortDocument ==
  /\ pc = "ready"
  /\ \E n \in 0..MaxLines :
       \E lines \in [1..n -> LineShapes] :
         extract_structure(Pdf(TRUE, MyPaper, 1, PageHeight, <<>>, <<>>, lines))

NextFont == OutlineOfShortDocument \/ NewExtractor

SpecFont == Init /\ [][NextFont]_vars

\* ----------------------------------------------------- outline claims
FromToc == Answered /\ pdf.opens /\ Len(pdf.toc) >= MinTocEntries

FromFonts == Answered /\ pdf.opens /\ Len(pdf.toc) < MinTocEntries

CappedLevel(depth) == IF depth = 1 THEN "H1" ELSE IF depth = 2 THEN "H2" ELSE "H3"

TocOutlineWith(text_of_entry) ==
  LET out == structure.outline
  IN /\ Len(out) = Min(Len(pdf.toc), MaxOutline)
     /\ \A i \in 1..Len(out) :
          /\ out[i].level = CappedLevel(pdf.toc[i].level)
          /\ out[i].text = text_of_entry[i]
          /\ out[i].page = pdf.toc[i].page
     /\ heading_lines = <<>>

\* C5 as stated: with 3 or more TOC entries the outline is the first 50 TOC
\* entries in TOC order, each with level H{min(depth, 3)}, the entry's text and its
\* page, and nothing from the font analysis.
C5_Original ==
  FromToc => TocOutlineWith([i \in 1..Len(pdf.toc) |-> pdf.toc[i].title])

\* C5, amended: the same, the text being the entry's text without its leading and
\* trailing white space.
C5_TocOutline ==
  FromToc => TocOutlineWith([i \in 1..Len(pdf.toc) |-> Strip(pdf.toc[i].title)])

\* A TOC of more than 50 entries with a title that loses white space.
C5_Witness ==
  /\ FromToc
  /\ Len(pdf.toc) > MaxOutline
  /\ Len(structure.outline) = MaxOutline
  /\ \E i \in 1..MaxOutline : structure.outline[i].text # pdf.toc[i].title

DistinctKeys(out) ==
  \A i, j \in 1..Len(out) :
    (i # j /\ out[i].page = out[j].page) => Lower(out[i].text) # Lower(out[j].text)

EntriesAt(level) == {i \in 1..Len(structure.outline) : structure.outline[i].level = level}

RECURSIVE SizeSum(_)
SizeSum(is) ==
  IF is = {} THEN 0
  ELSE LET i == CHOOSE x \in is : TRUE IN heading_lines[i].font_size + SizeSum(is \ {i})

\* mean size of the entries at level a >= mean size of those at level b
MeanAtLeast(a, b) ==
  (EntriesAt(a) # {} /\ EntriesAt(b) # {}) =>
    SizeSum(EntriesAt(a)) * Cardinality(EntriesAt(b))
      >= SizeSum(EntriesAt(b)) * Cardinality(EntriesAt(a))

MeansOrdered ==
  MeanAtLeast("H1", "H2") /\ MeanAtLeast("H2", "H3") /\ MeanAtLeast("H1", "H3")

\* C8 as stated: with fewer than 3 TOC entries, whatever the sizes, bold bits and
\* pattern matches of the lines, mean size of H1 entries >= that of H2 entries >=
\* that of H3 entries.
C8_Original == FromFonts => MeansOrdered

NoBoldEntry == \A i \in 1..Len(heading_lines) : ~heading_lines[i].is_bold

\* C8, amended: the same for outlines none of whose entries comes from a bold line.
C8_MeansOrderedWithoutBold == (FromFonts /\ NoBoldEntry) => MeansOrdered

\* Entries at two levels, none bold, one of them there by its pattern alone.
C8_Witness ==
  /\ FromFonts /\ NoBoldEntry
  /\ EntriesAt("H2") # {} /\ EntriesAt("H3") # {}
  /\ \E i \in EntriesAt("H3") : heading_lines[i].font_size = BaseFontSize(SizesOf(pdf.lines))

\* C13: with 0, 1 or 2 TOC entries the outline is the font-analysis outline of
\* the document's lines cut to 50 entries, every entry of it backed by a line
\* and none by a TOC entry, also when the font analysis finds no heading.
C13_FallbackReplacesToc ==
  FromFonts =>
    /\ structure.outline = Prefix(_extract_headings_by_font_analysis(pdf.lines), MaxOutline)
    /\ Len(heading_lines) = Len(structure.outline)
    /\ _extract_headings_by_font_analysis(pdf.lines) = <<>> => structure.outline = <<>>

\* Two TOC entries, lines of which none is a heading: an empty outline.
C13_Witness ==
  /\ FromFonts
  /\ Len(pdf.toc) = 2
  /\ pdf.lines # <<>>
  /\ _extract_headings_by_font_analysis(pdf.lines) = <<>>
  /\ structure.outline = <<>>

\* The level C14 gives a line, its sizes compared in tenths of the base size.
Precedence(l, base) ==
  LET at_least(tenths) == 10 * l.font_size >= tenths * base
      matches == is_pattern_match(l.text)
  IN CASE at_least(14) \/ (l.is_bold /\ at_least(11)) -> "H1"
       [] OTHER ->
          CASE at_least(12) \/ (l.is_bold /\ matches) -> "H2"
            [] OTHER -> IF at_least(11) \/ matches THEN "H3" ELSE "none"

InRange(l) == TLen(l.text) > 2 /\ TLen(l.text) <= 200

OutlineBase == BaseFontSize(SizesOf(SelectSeq(pdf.lines, IsTextBlock)))

\* C14: every line of 3 to 200 characters is classified by the ordered
\* precedence H1, H2, H3, none; every outline entry has the level that precedence
\* gives its line; and no entry comes from a line that is not bold, is smaller than
\* 1.1 x base and matches no heading pattern.
C14_OrderedPrecedence ==
  FromFonts =>
    /\ \A k \in 1..Len(pdf.lines) :
         InRange(pdf.lines[k]) =>
           LevelOf(pdf.lines[k], OutlineBase) = Precedence(pdf.lines[k], OutlineBase)
    /\ \A i \in 1..Len(structure.outline) :
         /\ structure.outline[i].level = Precedence(heading_lines[i], OutlineBase)
         /\ ~ /\ ~heading_lines[i].is_bold
              /\ 10 * heading_lines[i].font_size < 11 * OutlineBase
              /\ ~is_pattern_match(heading_lines[i].text)

\* A bold numbered line between 1.1 and 1.2 x base, H1 by the first rule although
\* the second fits it too, next to a plain base-size line that stays out.
C14_Witness ==
  /\ FromFonts
  /\ \E i \in 1..Len(structure.outline) :
       /\ heading_lines[i].is_bold /\ is_pattern_match(heading_lines[i].text)
       /\ 10 * heading_lines[i].font_size >= 11 * OutlineBase
       /\ 10 * heading_lines[i].font_size < 12 * OutlineBase
       /\ structure.outline[i].level = "H1"
  /\ \E k \in 1..Len(pdf.lines) :
       /\ ~pdf.lines[k].is_bold /\ ~is_pattern_match(pdf.lines[k].text)
       /\ pdf.lines[k].font_size = OutlineBase
       /\ \A i \in 1..Len(structure.outline) :
            structure.outline[i].text # CleanText(pdf.lines[k].text)

\* ------------------------------------------------- claims on the requests
FitStep(stage) == pc = "done" /\ all_sections # <<>> /\ score_outcome.stage = stage

\* C11: a request starts with nothing fitted; after it the vectorizer is fitted
\* exactly when its fit step did not raise, and then on this request's sections,
\* and so is the reduction; a request whose fit step raised refines with no
\* model at all, whatever the requests before it fitted.
C11_ModelOfThisRequest ==
  /\ pc = "ready" =>
       vectorizer = "unfitted" /\ lsa = "unfitted" /\ fitted_on = NothingFitted
  /\ (pc = "done" /\ all_sections # <<>>) =>
       /\ vectorizer = "fitted" <=> score_outcome.stage # "vectorizer"
       /\ lsa = "fitted" <=> score_outcome.stage = "ok"
       /\ fitted_on.vectorizer = (IF vectorizer = "fitted" THEN all_sections ELSE <<>>)
       /\ fitted_on.lsa = (IF lsa = "fitted" THEN all_sections ELSE <<>>)
       /\ lsa = "unfitted" =>
            \A i \in 1..Len(result.subsection_analysis) :
              result.subsection_analysis[i].refined_text
                = Truncate(Paragraphs(ranked_sections[i].content)[1])

\* A request whose vectorizer fit raised, after an earlier request had fitted its
\* own model, and with a section of several paragraphs to refine.
C11_Witness ==
  /\ discarded
  /\ FitStep("vectorizer")
  /\ vectorizer = "unfitted" /\ lsa = "unfitted"
  /\ \E i \in 1..Len(result.subsection_analysis) :
       Len(Paragraphs(ranked_sections[i].content)) > 1
\* ------------------------------------------- claims on the accumulator
\* The accumulator as C12 words it: what flush() emits ...
Flushed(doc_name, acc) ==
  IF TLen(Strip(acc.content)) > 50
  THEN <<[document |-> doc_name, page_number |-> acc.page,
          section_title |-> IF acc.title = EmptyText THEN UntitledSection ELSE acc.title,
          content |-> Strip(acc.content)]>>
  ELSE <<>>

\* ... and its transition on a block, by the three cases of C12.
Transition(doc_name, m, b) ==
  CASE is_heading(b) /\ m.acc.content # EmptyText ->
         [emitted |-> m.emitted \o Flushed(doc_name, m.acc),
          acc |-> [title |-> Take(b.text, 100), content |-> EmptyText, page |-> b.page]]
    [] is_heading(b) /\ m.acc.content = EmptyText /\ m.acc.title = EmptyText ->
         [emitted |-> m.emitted,
          acc |-> [title |-> Take(b.text, 100), content |-> EmptyText, page |-> b.page]]
    [] OTHER ->
         [emitted |-> m.emitted,
          acc |-> [title |-> m.acc.title, page |-> m.acc.page,
                   content |-> Cat(Cat(m.acc.content, b.text), T1("n", 2))]]

RECURSIVE Accumulate(_, _)
Accumulate(doc_name, blocks) ==
  IF blocks = <<>>
  THEN [emitted |-> <<>>,
        acc |-> [title |-> EmptyText, content |-> EmptyText, page |-> 1]]
  ELSE Transition(doc_name, Accumulate(doc_name, Prefix(blocks, Len(blocks) - 1)),
                  blocks[Len(blocks)])

Segmented == pc = "done" /\ Len(documents) = 1 /\ documents[1].fault = "none"

\* C12: after every prefix of every block sequence the code's accumulator and
\* emitted sections are those of the transitions C12 lists, and the sections
\* returned are the emitted ones followed by the end-of-document flush.
C12_AccumulatorTransitions ==
  Segmented =>
    LET d == documents[1]
        m == Accumulate(d.name, d.blocks)
    IN /\ \A k \in 0..Len(d.blocks) :
            LET st == SegmentBlocks(d.name, [sections |-> <<>>, cur |-> NewSection],
                                    Prefix(d.blocks, k))
                mk == Accumulate(d.name, Prefix(d.blocks, k))
            IN st.cur = mk.acc /\ st.sections = mk.emitted
       /\ _extract_sections_from_document(d.name, d.blocks)
            = m.emitted \o Flushed(d.name, m.acc)
       /\ all_sections = m.emitted \o Flushed(d.name, m.acc)

\* A heading that sets the title, a second heading that becomes content, and a
\* body: one section, under the first heading, its content opening with the second.
C12_Witness ==
  /\ Segmented
  /\ Len(documents[1].blocks) = 3
  /\ is_heading(documents[1].blocks[1]) /\ is_heading(documents[1].blocks[2])
  /\ ~is_heading(documents[1].blocks[3])
  /\ documents[1].blocks[1].text # documents[1].blocks[2].text
  /\ Len(all_sections) = 1
  /\ all_sections[1].section_title = Take(documents[1].blocks[1].text, TitleLimit)
  /\ all_sections[1].content
       = Cat(Cat(documents[1].blocks[2].text, T1("n", 2)), documents[1].blocks[3].text)
====
